---- MODULE Spec2Model ----
(***************************************************************************)
(* pymochi: the deck cache of MochiAPI, the name-or-id resolution of       *)
(* get_cards, and the deck operations that reload the cache.               *)
(*                                                                         *)
(* Python values: NoneVal is None (also the result of dict.get on a        *)
(* missing key); strings are TLA+ strings, "" included.  The cache         *)
(* api.decks is an insertion-ordered dict: a sequence of slots             *)
(* [key, isList, items], isList telling a bare Deck from a list of Decks.  *)
(* A Deck object is a record [id, name, parent_id].  The caller holds at   *)
(* most one Deck handle, which either is an object of the cache (by its    *)
(* position) or an object the cache no longer holds.                       *)
(*                                                                         *)
(* Four specifications: Spec runs every public operation against a server  *)
(* that may answer anything; LookupSpec runs the lookups on a cache loaded *)
(* from any listing; ChildrenSpec runs get_children on such a cache;       *)
(* CardSpec runs get_cards on cards of any content.                        *)
(***************************************************************************)
EXTENDS Integers, Sequences, FiniteSets, TLC

VARIABLES constructed, decks, handle, listing, last

vars == <<constructed, decks, handle, listing, last>>

\* ------------------------------------------------------------------ values

NoneVal == "<None>"

\* Python truthiness of None and of a string
Falsy(v) == v = NoneVal \/ v = ""

\* longest deck listing the server sends
MaxListing == 2

\* the values of a listing entry's fields, as _load_decks_internal reads them:
\* id is get('id') or get('_id'), name is get('name'), parent is the value of
\* get('parent-id') or get('parent_id') or get('parent') after the string test
IdVals == {NoneVal, "", "a", "b"}
NameVals == {NoneVal, "", "a", "b"}
ParentVals == {NoneVal, "a"}

\* a listing entry: a dict, read through .get, or a value that is not a dict
DeckData == [isdict : {TRUE}, id : IdVals, name : NameVals, parent : ParentVals]

NotADict == [isdict |-> FALSE, id |-> NoneVal, name |-> NoneVal, parent |-> NoneVal]

\* the entries the server sends while the client is operated: two decks named
\* "a" (one of them with the id "a"), a deck named "b", an entry without id
\* and an entry without name
ServerEntries ==
    {d \in DeckData :
        /\ d.parent = NoneVal
        /\ <<d.id, d.name>> \in {<<"a", "a">>, <<"b", "a">>, <<"b", "b">>, <<NoneVal, "b">>,
                                    <<"a", NoneVal>>}}

\* a name that is a JSON array: a list, which no dict takes as a key
UnhashableName == "<list>"

UnhashableEntry ==
    [isdict |-> TRUE, id |-> "a", name |-> UnhashableName, parent |-> NoneVal]

SeqsUpTo(S, n) == UNION {[1..k -> S] : k \in 0..n}

ServerListings == SeqsUpTo(ServerEntries, MaxListing)

\* the listings a client is constructed from when only the lookups are run
AnyListings == SeqsUpTo(DeckData \cup {NotADict}, MaxListing)

\* ------------------------------------------------------------------ Deck

Deck(deck_id, name, parent_id) ==
    [id |-> deck_id, name |-> name, parent_id |-> parent_id]

\* ------------------------------------------------- MochiAPIError, ValueError

\* status_code=None of MochiAPIError
NoStatus == 0

MochiAPIError(msg, status_code) ==
    [type |-> "MochiAPIError", msg |-> msg, status_code |-> status_code, ids |-> <<>>,
     names |-> 0, nids |-> 0]

ValueError(msg, ids, names, nids) ==
    [type |-> "ValueError", msg |-> msg, status_code |-> NoStatus, ids |-> ids,
     names |-> names, nids |-> nids]

\* an exception of another built-in class: TypeError, AttributeError
OtherError(type, msg) ==
    [type |-> type, msg |-> msg, status_code |-> NoStatus, ids |-> <<>>, names |-> 0,
     nids |-> 0]

NoError == [type |-> "none", msg |-> <<>>, status_code |-> NoStatus, ids |-> <<>>,
            names |-> 0, nids |-> 0]

\* the two except clauses that end an operation:
\* except MochiAPIError as e: raise MochiAPIError(f"<context>: {e}", e.status_code, ...)
\* except Exception as e: raise MochiAPIError(f"An unexpected error occurred ...: {e}")
Wrap(context, e) ==
    IF e.type = "MochiAPIError" THEN MochiAPIError(<<context>> \o e.msg, e.status_code)
    ELSE MochiAPIError(<<"An unexpected error occurred", context>> \o e.msg, NoStatus)

\* --------------------------------------------------------------- transport

(***************************************************************************)
(* What requests.request and response.json() give for one call.  A JSON    *)
(* body is a record: kind is "dict", "list" or "scalar"; a dict has or     *)
(* has not the key docs (hasdocs), whose value is a list or not            *)
(* (docslist); id, name and parent are what .get reads from a dict.        *)
(***************************************************************************)
Body(kind, hasdocs, docslist, docs, id, name, parent) ==
    [kind |-> kind, hasdocs |-> hasdocs, docslist |-> docslist, docs |-> docs,
     id |-> id, name |-> name, parent |-> parent]

\* {}
EmptyDict == Body("dict", FALSE, FALSE, <<>>, NoneVal, NoneVal, NoneVal)

DocsBody(docs) == Body("dict", TRUE, TRUE, docs, NoneVal, NoneVal, NoneVal)
\* {"docs": []}
NoDocs == DocsBody(<<>>)
ListBody(docs) == Body("list", FALSE, TRUE, docs, NoneVal, NoneVal, NoneVal)
DocsNotListBody == Body("dict", TRUE, FALSE, <<>>, NoneVal, NoneVal, NoneVal)
ScalarBody == Body("scalar", FALSE, FALSE, <<>>, NoneVal, NoneVal, NoneVal)
DeckBody(id, name, parent) == Body("dict", FALSE, FALSE, <<>>, id, name, parent)

\* t: "http" (a response came), "timeout", "network"; json: the content parses
Outcome(t, status, content, json, body) ==
    [t |-> t, status |-> status, content |-> content, json |-> json, body |-> body]

Http(status, body) == Outcome("http", status, TRUE, TRUE, body)
NoContent == Outcome("http", 204, FALSE, TRUE, EmptyDict)
BadJson == Outcome("http", 200, TRUE, FALSE, EmptyDict)
Timeout == Outcome("timeout", 0, FALSE, FALSE, EmptyDict)
NetworkError == Outcome("network", 0, FALSE, FALSE, EmptyDict)

\* the ways a request fails
Failures == {Timeout, NetworkError, BadJson, Http(404, EmptyDict), Http(500, EmptyDict)}

\* bool(response) of a requests.Response: its ok property, status below 400
ResponseBool(status) == status < 400

\* response.status_code if response else None
ErrorStatus(status) == IF ResponseBool(status) THEN status ELSE NoStatus

Ok(data) == [ok |-> TRUE, data |-> data, err |-> NoError]
Raise(err) == [ok |-> FALSE, data |-> EmptyDict, err |-> err]

\* _make_request, given what the transport does with the call
MakeRequest(o) ==
    IF o.t = "timeout" THEN Raise(MochiAPIError(<<"Request timed out">>, NoStatus))
    ELSE IF o.t = "network"
    THEN Raise(MochiAPIError(<<"Network or Request Error">>, NoStatus))
    ELSE IF o.status >= 400
    THEN Raise(MochiAPIError(<<"HTTP Error calling">>, ErrorStatus(o.status)))
    ELSE IF o.status = 204 \/ ~o.content THEN Ok(EmptyDict)
    ELSE IF ~o.json THEN Raise(MochiAPIError(<<"Failed to parse JSON response">>, NoStatus))
    ELSE Ok(o.body)

\* ------------------------------------------------------- _load_decks_internal

\* deck_name in deck_map: the position of the key, 0 when absent
KeyIndex(deck_map, deck_name) ==
    IF \E i \in 1..Len(deck_map) : deck_map[i].key = deck_name
    THEN CHOOSE i \in 1..Len(deck_map) : deck_map[i].key = deck_name
    ELSE 0

\* SkipEntry with "not deck_name" for "deck_name is None": an empty name is skipped
SkipEntryEmptyName(deck_data) ==
    \/ ~deck_data.isdict
    \/ Falsy(deck_data.id)
    \/ Falsy(deck_data.name)

\* the skip test of the loop body
SkipEntry(deck_data) ==
    \/ ~deck_data.isdict
    \/ Falsy(deck_data.id)
    \/ deck_data.name = NoneVal

\* AddDeck that stores the first deck of a name as a list of one
AddDeckAlwaysList(deck_map, deck_data) ==
    IF SkipEntry(deck_data) THEN deck_map
    ELSE LET deck_obj == Deck(deck_data.id, deck_data.name, deck_data.parent)
             i == KeyIndex(deck_map, deck_data.name)
         IN IF i = 0
            THEN Append(deck_map,
                        [key |-> deck_data.name, isList |-> TRUE, items |-> <<deck_obj>>])
            ELSE [deck_map EXCEPT ![i] =
                    [key |-> @.key, isList |-> TRUE, items |-> Append(@.items, deck_obj)]]

\* one iteration of the loop over decks_list
AddDeck(deck_map, deck_data) ==
    IF SkipEntry(deck_data) THEN deck_map
    ELSE LET deck_obj == Deck(deck_data.id, deck_data.name, deck_data.parent)
             i == KeyIndex(deck_map, deck_data.name)
         IN IF i = 0
            THEN Append(deck_map,
                        [key |-> deck_data.name, isList |-> FALSE, items |-> <<deck_obj>>])
            ELSE [deck_map EXCEPT ![i] =
                    [key |-> @.key, isList |-> TRUE, items |-> Append(@.items, deck_obj)]]

RECURSIVE BuildMap(_, _)
BuildMap(decks_list, deck_map) ==
    IF decks_list = <<>> THEN deck_map
    ELSE BuildMap(Tail(decks_list), AddDeck(deck_map, Head(decks_list)))

\* LoadDecksInternal that takes every answer without a list of decks for an
\* empty listing
LoadDecksInternalLenient(o) ==
    LET r == MakeRequest(o) IN
    IF ~r.ok
    THEN Raise(Wrap("Failed to load decks during initialization", r.err))
    ELSE IF \E i \in 1..Len(r.data.docs) :
                ~SkipEntry(r.data.docs[i]) /\ r.data.docs[i].name = UnhashableName
    THEN Raise(OtherError("TypeError", <<"unhashable type: 'list'">>))
    ELSE [ok |-> TRUE, data |-> BuildMap(r.data.docs, <<>>), err |-> NoError]

\* _load_decks_internal, given what the transport does with GET decks:
\* Ok with data the new deck_map, or the error raised ("deck_name in deck_map"
\* raises TypeError at the first entry kept whose name cannot be hashed)
LoadDecksInternal(o) ==
    LET r == MakeRequest(o) IN
    IF ~r.ok
    THEN Raise(Wrap("Failed to load decks during initialization", r.err))
    ELSE IF ~((r.data.kind = "dict" /\ r.data.hasdocs) \/ r.data.kind = "list")
    THEN Raise(MochiAPIError(<<"Unexpected format when listing decks">>, NoStatus))
    ELSE IF ~r.data.docslist
    THEN Raise(MochiAPIError(<<"Expected 'docs' field to contain a list of decks">>,
                             NoStatus))
    ELSE IF \E i \in 1..Len(r.data.docs) :
                ~SkipEntry(r.data.docs[i]) /\ r.data.docs[i].name = UnhashableName
    THEN Raise(OtherError("TypeError", <<"unhashable type: 'list'">>))
    ELSE [ok |-> TRUE, data |-> BuildMap(r.data.docs, <<>>), err |-> NoError]

\* ------------------------------------------------------------ cache lookups

\* every Deck of the cache, slot after slot (the loops over self.decks.values())
RECURSIVE AllDeckObjects(_)
AllDeckObjects(deck_map) ==
    IF deck_map = <<>> THEN <<>>
    ELSE Head(deck_map).items \o AllDeckObjects(Tail(deck_map))

IdsOf(deck_list) == [i \in 1..Len(deck_list) |-> deck_list[i].id]

\* GetDecksFull without the branch for a list of Decks
GetDecksFullNoLists(deck_map) ==
    LET all == AllDeckObjects(SelectSeq(deck_map, LAMBDA slot : ~slot.isList))
    IN [i \in 1..Len(all) |-> [name |-> all[i].name, id |-> all[i].id]]

\* get_decks(names_only=False)
GetDecksFull(deck_map) ==
    LET all == AllDeckObjects(deck_map)
    IN [i \in 1..Len(all) |-> [name |-> all[i].name, id |-> all[i].id]]

\* GetDecksNames that leaves out the names shared by several decks
GetDecksNamesNoLists(deck_map) ==
    LET singles == SelectSeq(deck_map, LAMBDA slot : ~slot.isList)
    IN [i \in 1..Len(singles) |-> singles[i].key]

\* get_decks(names_only=True): list(self.decks.keys())
GetDecksNames(deck_map) == [i \in 1..Len(deck_map) |-> deck_map[i].key]

\* count_decks
RECURSIVE CountDecksOf(_)
CountDecksOf(deck_map) ==
    IF deck_map = <<>> THEN 0
    ELSE (IF Head(deck_map).isList THEN Len(Head(deck_map).items) ELSE 1)
         + CountDecksOf(Tail(deck_map))

\* get_deck(name): the slot of the Deck returned, or the ValueError raised
GetDeckOf(deck_map, name) ==
    LET i == KeyIndex(deck_map, name) IN
    IF i = 0
    THEN [ok |-> FALSE, k |-> 0,
          err |-> ValueError(<<"No deck found with name">>, <<>>, Len(deck_map), 0)]
    ELSE IF deck_map[i].isList
    THEN [ok |-> FALSE, k |-> 0,
          err |-> ValueError(<<"Multiple decks found with name">>,
                             IdsOf(deck_map[i].items), 0, 0)]
    ELSE [ok |-> TRUE, k |-> i, err |-> NoError]

\* FirstWithId that takes the first deck of the cache once some deck matches
FirstWithIdAny(all, x) ==
    IF \E i \in 1..Len(all) : all[i].id = x THEN all[1].id ELSE NoneVal

\* next((deck for deck in all_deck_objects if deck.id == x), None)
FirstWithId(all, x) ==
    IF \E i \in 1..Len(all) : all[i].id = x
    THEN LET i == CHOOSE j \in 1..Len(all) :
                     /\ all[j].id = x
                     /\ \A m \in 1..(j - 1) : all[m].id # x
         IN all[i].id
    ELSE NoneVal

\* Resolve that goes on to the id search when the name is shared by several decks
ResolveFallsThrough(deck_map, deck_name_or_id) ==
    LET i == KeyIndex(deck_map, deck_name_or_id)
        by_name == IF i # 0 /\ ~deck_map[i].isList THEN deck_map[i].items[1].id
                   ELSE NoneVal
        by_id == FirstWithId(AllDeckObjects(deck_map), deck_name_or_id)
    IN IF by_name # NoneVal
       THEN [ok |-> TRUE, target |-> by_name, resolved_by |-> "name", err |-> NoError]
       ELSE IF by_id # NoneVal
       THEN [ok |-> TRUE, target |-> by_id, resolved_by |-> "id", err |-> NoError]
       ELSE [ok |-> FALSE, target |-> NoneVal, resolved_by |-> NoneVal,
             err |-> ValueError(<<"No deck found with name or ID">>, <<>>,
                                Len(GetDecksNames(deck_map)),
                                Len(GetDecksFull(deck_map)))]

\* Resolve that reports the number of names also as the number of ids
ResolveCountsNamesTwice(deck_map, deck_name_or_id) ==
    LET i == KeyIndex(deck_map, deck_name_or_id)
        ambiguous_name == i # 0 /\ deck_map[i].isList
        by_name == IF i # 0 /\ ~deck_map[i].isList THEN deck_map[i].items[1].id
                   ELSE NoneVal
        by_id == FirstWithId(AllDeckObjects(deck_map), deck_name_or_id)
    IN IF ambiguous_name
       THEN [ok |-> FALSE, target |-> NoneVal, resolved_by |-> NoneVal,
             err |-> ValueError(<<"matches multiple decks by name">>,
                                IdsOf(deck_map[i].items), 0, 0)]
       ELSE IF by_name # NoneVal
       THEN [ok |-> TRUE, target |-> by_name, resolved_by |-> "name", err |-> NoError]
       ELSE IF by_id # NoneVal
       THEN [ok |-> TRUE, target |-> by_id, resolved_by |-> "id", err |-> NoError]
       ELSE [ok |-> FALSE, target |-> NoneVal, resolved_by |-> NoneVal,
             err |-> ValueError(<<"No deck found with name or ID">>, <<>>,
                                Len(GetDecksNames(deck_map)),
                                Len(GetDecksNames(deck_map)))]

\* Resolve that searches the ids before it looks the name up
ResolveIdFirst(deck_map, deck_name_or_id) ==
    LET i == KeyIndex(deck_map, deck_name_or_id)
        ambiguous_name == i # 0 /\ deck_map[i].isList
        by_name == IF i # 0 /\ ~deck_map[i].isList THEN deck_map[i].items[1].id
                   ELSE NoneVal
        by_id == FirstWithId(AllDeckObjects(deck_map), deck_name_or_id)
    IN IF ambiguous_name
       THEN [ok |-> FALSE, target |-> NoneVal, resolved_by |-> NoneVal,
             err |-> ValueError(<<"matches multiple decks by name">>,
                                IdsOf(deck_map[i].items), 0, 0)]
       ELSE IF by_id # NoneVal
       THEN [ok |-> TRUE, target |-> by_id, resolved_by |-> "id", err |-> NoError]
       ELSE IF by_name # NoneVal
       THEN [ok |-> TRUE, target |-> by_name, resolved_by |-> "name", err |-> NoError]
       ELSE [ok |-> FALSE, target |-> NoneVal, resolved_by |-> NoneVal,
             err |-> ValueError(<<"No deck found with name or ID">>, <<>>,
                                Len(GetDecksNames(deck_map)),
                                Len(GetDecksFull(deck_map)))]

\* steps 1 to 3 of get_cards: target_deck_id and resolved_by, or the ValueError
Resolve(deck_map, deck_name_or_id) ==
    LET i == KeyIndex(deck_map, deck_name_or_id)
        ambiguous_name == i # 0 /\ deck_map[i].isList
        by_name == IF i # 0 /\ ~deck_map[i].isList THEN deck_map[i].items[1].id
                   ELSE NoneVal
        by_id == FirstWithId(AllDeckObjects(deck_map), deck_name_or_id)
    IN IF ambiguous_name
       THEN [ok |-> FALSE, target |-> NoneVal, resolved_by |-> NoneVal,
             err |-> ValueError(<<"matches multiple decks by name">>,
                                IdsOf(deck_map[i].items), 0, 0)]
       ELSE IF by_name # NoneVal
       THEN [ok |-> TRUE, target |-> by_name, resolved_by |-> "name", err |-> NoError]
       ELSE IF by_id # NoneVal
       THEN [ok |-> TRUE, target |-> by_id, resolved_by |-> "id", err |-> NoError]
       ELSE [ok |-> FALSE, target |-> NoneVal, resolved_by |-> NoneVal,
             err |-> ValueError(<<"No deck found with name or ID">>, <<>>,
                                Len(GetDecksNames(deck_map)),
                                Len(GetDecksFull(deck_map)))]

\* ------------------------------------------------------------- card content

\* a content string is the sequence of its characters
Separator == <<"\n", "-", "-", "-", "\n">>

IsSpace(c) == c \in {" ", "\n"}

\* str.find(Separator) + 1: the first position the separator starts at, 0 if none
FindSeparator(str) ==
    LET n == Len(Separator)
        at(i) == i + n - 1 <= Len(str) /\ SubSeq(str, i, i + n - 1) = Separator
    IN IF \E i \in 1..Len(str) : at(i)
       THEN CHOOSE i \in 1..Len(str) : at(i) /\ \A j \in 1..(i - 1) : ~at(j)
       ELSE 0

\* SplitOnce that splits at every separator and takes the first two parts
SplitOnceDropsRest(str) ==
    LET i == FindSeparator(str)
        rest == SubSeq(str, i + Len(Separator), Len(str))
        j == FindSeparator(rest)
    IN IF i = 0 THEN <<str>>
       ELSE <<SubSeq(str, 1, i - 1), IF j = 0 THEN rest ELSE SubSeq(rest, 1, j - 1)>>

\* content_string.split('\n---\n', 1)
SplitOnce(str) ==
    LET i == FindSeparator(str) IN
    IF i = 0 THEN <<str>>
    ELSE <<SubSeq(str, 1, i - 1), SubSeq(str, i + Len(Separator), Len(str))>>

RECURSIVE LStrip(_)
LStrip(str) ==
    IF str # <<>> /\ IsSpace(Head(str)) THEN LStrip(Tail(str)) ELSE str

RECURSIVE RStrip(_)
RStrip(str) ==
    IF str # <<>> /\ IsSpace(str[Len(str)]) THEN RStrip(SubSeq(str, 1, Len(str) - 1))
    ELSE str

\* Strip that takes "-" for white space at the right end
StripAlsoDashes(str) ==
    LET s == RStrip(LStrip(str)) IN
    IF s # <<>> /\ s[Len(s)] = "-" THEN SubSeq(s, 1, Len(s) - 1) ELSE s

\* str.strip()
Strip(str) == RStrip(LStrip(str))

\* the body of the condensing loop: {'front': front, 'back': back}
Condense(card_data) ==
    LET content_string == card_data.content
        parts == SplitOnce(content_string)
    IN [front |-> IF Len(parts) > 0 THEN Strip(parts[1]) ELSE Strip(content_string),
        back |-> IF Len(parts) > 1 THEN Strip(parts[2]) ELSE <<>>]

\* the condensing loop: card_data.get raises AttributeError on an entry that
\* is not a dict
CondenseAll(raw_cards_list) ==
    IF \E i \in 1..Len(raw_cards_list) : ~raw_cards_list[i].isdict
    THEN Raise(OtherError("AttributeError", <<"object has no attribute 'get'">>))
    ELSE Ok([i \in 1..Len(raw_cards_list) |-> Condense(raw_cards_list[i])])

\* f"{front}\n---\n{back}" of add_card and update_card
JoinContent(front, back) == front \o Separator \o back

\* a card of a listing, read through card_data.get('content', ''), and an
\* entry of a card listing that is not a dict
Card(content) == [isdict |-> TRUE, content |-> content]

NotACard == [isdict |-> FALSE, content |-> <<>>]

\* CardsOf without the branch for an empty dict
CardsOfEmptyIsError(o, condensed) ==
    LET r == MakeRequest(o) IN
    IF ~r.ok THEN r
    ELSE IF r.data.kind = "dict" /\ r.data.hasdocs
    THEN IF ~r.data.docslist
         THEN Raise(MochiAPIError(<<"had 'docs' but it wasn't a list">>, NoStatus))
         ELSE IF condensed THEN CondenseAll(r.data.docs) ELSE Ok(r.data.docs)
    ELSE IF r.data.kind = "list"
    THEN IF condensed THEN CondenseAll(r.data.docs) ELSE Ok(r.data.docs)
    ELSE Raise(MochiAPIError(<<"Unexpected response format listing cards">>, NoStatus))

\* steps 4 to 6 of get_cards for a resolved deck, given what the transport does
\* with GET cards?deck-id=...: Ok with the list returned, or the error raised
\* inside the try block
CardsOf(o, condensed) ==
    LET r == MakeRequest(o) IN
    IF ~r.ok THEN r
    ELSE IF r.data.kind = "dict" /\ r.data.hasdocs
    THEN IF ~r.data.docslist
         THEN Raise(MochiAPIError(<<"had 'docs' but it wasn't a list">>, NoStatus))
         ELSE IF condensed THEN CondenseAll(r.data.docs) ELSE Ok(r.data.docs)
    ELSE IF r.data.kind = "list"
    THEN IF condensed THEN CondenseAll(r.data.docs) ELSE Ok(r.data.docs)
    ELSE IF r.data.kind = "dict" /\ r.data = EmptyDict
    THEN Ok(<<>>)
    ELSE Raise(MochiAPIError(<<"Unexpected response format listing cards">>, NoStatus))

\* ------------------------------------------------------------------ handles

NoDeck == Deck(NoneVal, NoneVal, NoneVal)

\* the caller holds no Deck
NoHandle == [kind |-> "none", k |-> 0, j |-> 0, obj |-> NoDeck]

\* the caller holds the Deck object at items[j] of slot k of the cache
Cached(k, j) == [kind |-> "cached", k |-> k, j |-> j, obj |-> NoDeck]

\* the caller holds a Deck object that is not in the cache
Own(obj) == [kind |-> "own", k |-> 0, j |-> 0, obj |-> obj]

\* the Deck object behind the handle
SelfOf(deck_map, h) == IF h.kind = "cached" THEN deck_map[h.k].items[h.j] ELSE h.obj

\* self.decks = <new map>: an object held from the old map lives on outside it
Detach(deck_map, h) == IF h.kind = "cached" THEN Own(deck_map[h.k].items[h.j]) ELSE h

\* self.name = new_name on the object behind the handle: the new cache and handle
SetName(deck_map, h, new_name) ==
    IF h.kind = "cached"
    THEN [decks |-> [deck_map EXCEPT ![h.k].items[h.j].name = new_name], handle |-> h]
    ELSE [decks |-> deck_map, handle |-> Own([h.obj EXCEPT !.name = new_name])]

\* ------------------------------------------------------------- operations

\* a request issued, with what the transport did with it: t as in Outcome, and
\* the HTTP status of the response (0 when none came);
\* sent is the content of the payload, got the outcome itself
RequestWith(method, endpoint, id, sent, o) ==
    [method |-> method, endpoint |-> endpoint, id |-> id, sent |-> sent, t |-> o.t,
     status |-> IF o.t = "http" THEN o.status ELSE 0, got |-> o]

Request(method, endpoint, id, o) == RequestWith(method, endpoint, id, <<>>, o)

\* what a call did: the requests it issued in order; the stage it ended at
\* ("done": it returned ret; otherwise it raised err: "lookup" before any
\* request, "request" when its first request failed, "response" when that
\* request's answer was refused, "reload" when the reload failed); and the
\* cache, handle and last loaded listing it leaves
Done(reqs, stage, err, ret, deck_map, h, docs) ==
    [reqs |-> reqs, stage |-> stage, ok |-> stage = "done", err |-> err, ret |-> ret,
     decks |-> deck_map, handle |-> h, listing |-> docs]

\* the list a successful load was built from
DocsOf(o) == o.body.docs

\* create_deck that returns the first deck of the name when several have it
create_deck_first_of_name(deck_map, h, docs, name, parent_id, o1, o2) ==
    LET post == <<Request("POST", "decks", "", o1)>>
        both == post \o <<Request("GET", "decks", "", o2)>>
        fail(reqs, stage, e) ==
            Done(reqs, stage, Wrap("Failed to create deck", e), <<>>, deck_map, h, docs)
        r1 == MakeRequest(o1)
    IN IF ~r1.ok THEN fail(post, "request", r1.err)
       ELSE IF r1.data.kind # "dict"
       THEN fail(post, "response",
                 MochiAPIError(<<"Expected dictionary for created deck">>, NoStatus))
       ELSE IF Falsy(r1.data.id) \/ r1.data.name = NoneVal
       THEN fail(post, "response",
                 MochiAPIError(<<"Created deck response missing 'id' or 'name'">>,
                               NoStatus))
       ELSE LET r2 == LoadDecksInternal(o2) IN
            IF ~r2.ok THEN fail(both, "reload", r2.err)
            ELSE LET k == KeyIndex(r2.data, r1.data.name)
                     made == Deck(r1.data.id, r1.data.name, r1.data.parent)
                 IN IF k # 0
                    THEN Done(both, "done", NoError, <<r2.data[k].items[1]>>, r2.data,
                              Cached(k, 1), DocsOf(o2))
                    ELSE Done(both, "done", NoError, <<made>>, r2.data, Own(made),
                              DocsOf(o2))

\* MochiAPI.create_deck
create_deck(deck_map, h, docs, name, parent_id, o1, o2) ==
    LET post == <<Request("POST", "decks", "", o1)>>
        both == post \o <<Request("GET", "decks", "", o2)>>
        fail(reqs, stage, e) ==
            Done(reqs, stage, Wrap("Failed to create deck", e), <<>>, deck_map, h, docs)
        r1 == MakeRequest(o1)
    IN IF ~r1.ok THEN fail(post, "request", r1.err)
       ELSE IF r1.data.kind # "dict"
       THEN fail(post, "response",
                 MochiAPIError(<<"Expected dictionary for created deck">>, NoStatus))
       ELSE IF Falsy(r1.data.id) \/ r1.data.name = NoneVal
       THEN fail(post, "response",
                 MochiAPIError(<<"Created deck response missing 'id' or 'name'">>,
                               NoStatus))
       ELSE LET r2 == LoadDecksInternal(o2) IN
            IF ~r2.ok THEN fail(both, "reload", r2.err)
            ELSE LET g == GetDeckOf(r2.data, r1.data.name)
                     made == Deck(r1.data.id, r1.data.name, r1.data.parent)
                 IN IF g.ok
                    THEN Done(both, "done", NoError, <<r2.data[g.k].items[1]>>, r2.data,
                              Cached(g.k, 1), DocsOf(o2))
                    ELSE Done(both, "done", NoError, <<made>>, r2.data, Own(made),
                              DocsOf(o2))

\* the except MochiAPIError clause of delete_deck and of Deck.delete_card
DeleteError(what, e) ==
    IF e.type # "MochiAPIError" THEN Wrap("while deleting", e)
    ELSE IF e.status_code = 404
    THEN MochiAPIError(<<"Failed to delete: none found with ID (Error 404)", what>>,
                       e.status_code)
    ELSE MochiAPIError(<<"Failed to delete ID", what>> \o e.msg, e.status_code)

\* delete_deck that reloads the cache whatever became of the DELETE
delete_deck_reloads_anyway(deck_map, h, docs, deck_id, o1, o2) ==
    LET both == <<Request("DELETE", "decks/", deck_id, o1), Request("GET", "decks", "", o2)>>
        r1 == MakeRequest(o1)
        r2 == LoadDecksInternal(o2)
    IN IF ~r1.ok
       THEN Done(both, "request", DeleteError("deck", r1.err), <<>>,
                 IF r2.ok THEN r2.data ELSE deck_map,
                 IF r2.ok THEN Detach(deck_map, h) ELSE h,
                 IF r2.ok THEN DocsOf(o2) ELSE docs)
       ELSE IF ~r2.ok
       THEN Done(both, "reload", DeleteError("deck", r2.err), <<>>, deck_map, h, docs)
       ELSE Done(both, "done", NoError, <<>>, r2.data, Detach(deck_map, h), DocsOf(o2))

\* delete_deck that leaves the cache alone once the deck is deleted
delete_deck_no_reload(deck_map, h, docs, deck_id, o1, o2) ==
    LET del == <<Request("DELETE", "decks/", deck_id, o1)>>
        r1 == MakeRequest(o1)
    IN IF ~r1.ok
       THEN Done(del, "request", DeleteError("deck", r1.err), <<>>, deck_map, h, docs)
       ELSE Done(del, "done", NoError, <<>>, deck_map, h, docs)

\* MochiAPI.delete_deck
delete_deck(deck_map, h, docs, deck_id, o1, o2) ==
    LET del == <<Request("DELETE", "decks/", deck_id, o1)>>
        both == del \o <<Request("GET", "decks", "", o2)>>
        fail(reqs, stage, e) ==
            Done(reqs, stage, DeleteError("deck", e), <<>>, deck_map, h, docs)
        r1 == MakeRequest(o1)
    IN IF ~r1.ok THEN fail(del, "request", r1.err)
       ELSE LET r2 == LoadDecksInternal(o2) IN
            IF ~r2.ok THEN fail(both, "reload", r2.err)
            ELSE Done(both, "done", NoError, <<>>, r2.data, Detach(deck_map, h),
                      DocsOf(o2))

\* update_deck that sets self.name before the POST
update_deck_names_first(deck_map, h, docs, new_name, o1, o2) ==
    LET post == <<Request("POST", "decks/", SelfOf(deck_map, h).id, o1)>>
        both == post \o <<Request("GET", "decks", "", o2)>>
        named == SetName(deck_map, h, new_name)
        r1 == MakeRequest(o1)
    IN IF ~r1.ok
       THEN Done(post, "request", Wrap("Failed to update deck name", r1.err), <<>>,
                 named.decks, named.handle, docs)
       ELSE LET r2 == LoadDecksInternal(o2)
            IN IF ~r2.ok
               THEN Done(both, "reload", Wrap("Failed to update deck name", r2.err), <<>>,
                         named.decks, named.handle, docs)
               ELSE Done(both, "done", NoError, <<r1.data>>, r2.data,
                         Detach(named.decks, named.handle), DocsOf(o2))

\* update_deck that sets self.name after the reload
update_deck_names_last(deck_map, h, docs, new_name, o1, o2) ==
    LET post == <<Request("POST", "decks/", SelfOf(deck_map, h).id, o1)>>
        both == post \o <<Request("GET", "decks", "", o2)>>
        r1 == MakeRequest(o1)
    IN IF ~r1.ok
       THEN Done(post, "request", Wrap("Failed to update deck name", r1.err), <<>>,
                 deck_map, h, docs)
       ELSE LET r2 == LoadDecksInternal(o2)
                named == SetName(deck_map, h, new_name)
            IN IF ~r2.ok
               THEN Done(both, "reload", Wrap("Failed to update deck name", r2.err), <<>>,
                         deck_map, h, docs)
               ELSE Done(both, "done", NoError, <<r1.data>>, r2.data,
                         Detach(named.decks, named.handle), DocsOf(o2))

\* Deck.update_deck, on the Deck behind the handle
update_deck(deck_map, h, docs, new_name, o1, o2) ==
    LET post == <<Request("POST", "decks/", SelfOf(deck_map, h).id, o1)>>
        both == post \o <<Request("GET", "decks", "", o2)>>
        r1 == MakeRequest(o1)
    IN IF ~r1.ok
       THEN Done(post, "request", Wrap("Failed to update deck name", r1.err), <<>>,
                 deck_map, h, docs)
       ELSE LET named == SetName(deck_map, h, new_name)
                r2 == LoadDecksInternal(o2)
            IN IF ~r2.ok
               THEN Done(both, "reload", Wrap("Failed to update deck name", r2.err), <<>>,
                         named.decks, named.handle, docs)
               ELSE Done(both, "done", NoError, <<r1.data>>, r2.data,
                         Detach(named.decks, named.handle), DocsOf(o2))

\* refresh_decks that empties the cache before it loads
refresh_decks_clears(deck_map, h, docs, o) ==
    LET get == <<Request("GET", "decks", "", o)>>
        r == LoadDecksInternal(o)
    IN IF ~r.ok THEN Done(get, "reload", r.err, <<>>, <<>>, Detach(deck_map, h), docs)
       ELSE Done(get, "done", NoError, <<>>, r.data, Detach(deck_map, h), DocsOf(o))

\* MochiAPI.refresh_decks
refresh_decks(deck_map, h, docs, o) ==
    LET get == <<Request("GET", "decks", "", o)>>
        r == LoadDecksInternal(o)
    IN IF ~r.ok THEN Done(get, "reload", r.err, <<>>, deck_map, h, docs)
       ELSE Done(get, "done", NoError, <<>>, r.data, Detach(deck_map, h), DocsOf(o))

\* delete_card that empties the cache once the card is deleted
delete_card_drops_cache(deck_map, h, docs, card_id, o) ==
    LET del == <<Request("DELETE", "cards/", card_id, o)>>
        r == MakeRequest(o)
    IN IF ~r.ok
       THEN Done(del, "request", DeleteError("card", r.err), <<>>, deck_map, h, docs)
       ELSE Done(del, "done", NoError, <<>>, <<>>, Detach(deck_map, h), docs)

\* Deck.delete_card
delete_card(deck_map, h, docs, card_id, o) ==
    LET del == <<Request("DELETE", "cards/", card_id, o)>>
        r == MakeRequest(o)
    IN IF ~r.ok
       THEN Done(del, "request", DeleteError("card", r.err), <<>>, deck_map, h, docs)
       ELSE Done(del, "done", NoError, <<>>, deck_map, h, docs)

\* MochiAPI.get_cards
get_cards(deck_map, h, docs, deck_name_or_id, condensed, o) ==
    LET res == Resolve(deck_map, deck_name_or_id) IN
    IF ~res.ok THEN Done(<<>>, "lookup", res.err, <<>>, deck_map, h, docs)
    ELSE LET get == <<Request("GET", "cards?deck-id=", res.target, o)>>
             r == CardsOf(o, condensed)
         IN IF ~r.ok
            THEN Done(get, IF MakeRequest(o).ok THEN "response" ELSE "request",
                      Wrap("Failed to get cards for deck", r.err), <<>>,
                      deck_map, h, docs)
            ELSE Done(get, "done", NoError, r.data, deck_map, h, docs)

\* MochiAPI.get_deck: the caller keeps the Deck returned
get_deck(deck_map, h, docs, name) ==
    LET g == GetDeckOf(deck_map, name) IN
    IF ~g.ok THEN Done(<<>>, "lookup", g.err, <<>>, deck_map, h, docs)
    ELSE Done(<<>>, "done", NoError, <<deck_map[g.k].items[1]>>, deck_map,
              Cached(g.k, 1), docs)

\* MochiAPI.get_decks
get_decks(deck_map, h, docs, names_only) ==
    Done(<<>>, "done", NoError,
         IF names_only THEN GetDecksNames(deck_map) ELSE GetDecksFull(deck_map),
         deck_map, h, docs)

\* MochiAPI.count_decks
count_decks(deck_map, h, docs) ==
    Done(<<>>, "done", NoError, <<CountDecksOf(deck_map)>>, deck_map, h, docs)

\* MochiAPI.create_card: the request carries the deck id and the content
create_card(deck_map, h, docs, deck_id, content, o) ==
    LET post == <<RequestWith("POST", "cards", deck_id, content, o)>>
        r == MakeRequest(o)
    IN IF ~r.ok
       THEN Done(post, "request", Wrap("Failed to create card in deck ID", r.err), <<>>,
                 deck_map, h, docs)
       ELSE Done(post, "done", NoError, <<r.data>>, deck_map, h, docs)

\* Deck.add_card, on the Deck behind the handle
add_card(deck_map, h, docs, front, back, o) ==
    create_card(deck_map, h, docs, SelfOf(deck_map, h).id, JoinContent(front, back), o)

\* Deck.update_card
update_card(deck_map, h, docs, card_id, front, back, o) ==
    LET post == <<RequestWith("POST", "cards/", card_id, JoinContent(front, back), o)>>
        r == MakeRequest(o)
    IN IF ~r.ok
       THEN Done(post, "request", Wrap("Failed to update card", r.err), <<>>,
                 deck_map, h, docs)
       ELSE Done(post, "done", NoError, <<r.data>>, deck_map, h, docs)

\* deck_get_cards that lets the errors of get_cards through as they are
deck_get_cards_unwrapped(deck_map, h, docs, condensed, o) ==
    LET d == get_cards(deck_map, h, docs, SelfOf(deck_map, h).id, FALSE, o)
        c == CondenseAll(d.ret)
    IN IF ~d.ok \/ ~condensed THEN d
       ELSE IF ~c.ok THEN Done(d.reqs, "response", c.err, <<>>, deck_map, h, docs)
       ELSE Done(d.reqs, "done", NoError, c.data, deck_map, h, docs)

\* Deck.get_cards: api.get_cards(self.id, condensed=False), condensed here
deck_get_cards(deck_map, h, docs, condensed, o) ==
    LET d == get_cards(deck_map, h, docs, SelfOf(deck_map, h).id, FALSE, o)
        c == CondenseAll(d.ret)
    IN IF ~d.ok
       THEN Done(d.reqs, d.stage, Wrap("Failed to get cards for deck (Deck)", d.err),
                 <<>>, deck_map, h, docs)
       ELSE IF ~condensed THEN d
       ELSE IF ~c.ok
       THEN Done(d.reqs, "response", Wrap("Failed to get cards for deck (Deck)", c.err),
                 <<>>, deck_map, h, docs)
       ELSE Done(d.reqs, "done", NoError, c.data, deck_map, h, docs)

\* Deck.delete_deck
deck_delete_deck(deck_map, h, docs, o1, o2) ==
    delete_deck(deck_map, h, docs, SelfOf(deck_map, h).id, o1, o2)

\* get_children that compares parent_id with the name of the Deck
get_children_by_name(deck_map, h, docs, names_only) ==
    LET all == AllDeckObjects(deck_map)
        child_decks == SelectSeq(all, LAMBDA deck_obj :
                                        deck_obj.parent_id = SelfOf(deck_map, h).name)
    IN Done(<<>>, "done", NoError,
            IF names_only THEN [i \in 1..Len(child_decks) |-> child_decks[i].name]
            ELSE child_decks,
            deck_map, h, docs)

\* Deck.get_children, on the Deck behind the handle
get_children(deck_map, h, docs, names_only) ==
    LET all == AllDeckObjects(deck_map)
        child_decks == SelectSeq(all, LAMBDA deck_obj :
                                        deck_obj.parent_id = SelfOf(deck_map, h).id)
    IN Done(<<>>, "done", NoError,
            IF names_only THEN [i \in 1..Len(child_decks) |-> child_decks[i].name]
            ELSE child_decks,
            deck_map, h, docs)

\* the values passed as api_key: None, strings, and two integers
ApiKeys == {NoneVal, "", "key", "<int 0>", "<int 5>"}

\* isinstance(api_key, str)
IsStr(v) == v \notin {NoneVal, "<int 0>", "<int 5>"}

\* not api_key: None, "" and 0 are false
Not(v) == v \in {NoneVal, "", "<int 0>"}

\* construct that loads the decks before it tests the api_key
construct_loads_first(api_key, o) ==
    LET d == refresh_decks(<<>>, NoHandle, <<>>, o) IN
    IF d.ok /\ (Not(api_key) \/ ~IsStr(api_key))
    THEN Done(d.reqs, "lookup",
              ValueError(<<"Mochi API key must be provided as a non-empty string.">>,
                         <<>>, 0, 0),
              <<>>, <<>>, NoHandle, <<>>)
    ELSE d

\* MochiAPI.__init__: the api_key test, then the first load
construct(api_key, o) ==
    IF Not(api_key) \/ ~IsStr(api_key)
    THEN Done(<<>>, "lookup",
              ValueError(<<"Mochi API key must be provided as a non-empty string.">>,
                         <<>>, 0, 0),
              <<>>, <<>>, NoHandle, <<>>)
    ELSE refresh_decks(<<>>, NoHandle, <<>>, o)

\* ----------------------------------------------------------- what the server does

\* the answers to GET decks
ListingBodies ==
    {DocsBody(l) : l \in ServerListings}
    \cup {ListBody(l) : l \in {m \in ServerListings : Len(m) <= 1}}
    \cup {DocsNotListBody, ScalarBody, EmptyDict, DocsBody(<<UnhashableEntry>>)}

ReloadOutcomes == Failures \cup {Http(200, b) : b \in ListingBodies}

\* the answers to POST decks: the server echoes the parent it was sent
CreateOutcomes(parent_id) ==
    Failures \cup {NoContent, Http(200, ScalarBody)}
    \cup {Http(200, DeckBody(id, name, parent_id)) :
            id \in {NoneVal, "a", "b"}, name \in {NoneVal, "a", "b"}}

\* the answers to DELETE
DeleteOutcomes == Failures \cup {NoContent}

\* the answers to POST decks/{id}
UpdateOutcomes == Failures \cup {Http(200, EmptyDict)}

\* the answers to GET cards?deck-id=...
CardLists ==
    {<<>>, <<Card(<<"x">> \o Separator \o <<"y">>)>>, <<Card(<<"x">>)>>, <<NotACard>>}

CardOutcomes ==
    Failures \cup {NoContent}
    \cup {Http(200, b) :
            b \in {DocsBody(c) : c \in CardLists} \cup {ListBody(c) : c \in CardLists}
                  \cup {DocsNotListBody, ScalarBody, EmptyDict,
                        DeckBody("a", "a", NoneVal)}}

\* the answers to POST cards and POST cards/{id}: the card as a dict, and others
CardPostOutcomes ==
    Failures \cup {NoContent, Http(200, DeckBody("k", NoneVal, NoneVal)),
                   Http(200, ScalarBody)}

\* the fronts and backs the caller passes
Fronts == {<<"x">>}
Backs == {<<"y">>, <<>>}

\* the names, parents, deck ids and card ids the caller passes
DeckNames == {"a", "b"}
ParentIds == {NoneVal}
CardDeckIds == {"a"}
CardIds == {"k"}

\* longest card content the server sends, counted in pieces
MaxContent == 5

\* the pieces of a card content: a letter, a blank, a newline, a dash, and
\* the separator line as a whole
Pieces == {<<"x">>, <<" ">>, <<"\n">>, <<"-">>, Separator}

RECURSIVE Flatten(_)
Flatten(seqs) == IF seqs = <<>> THEN <<>> ELSE Head(seqs) \o Flatten(Tail(seqs))

\* the values of card_data.get('content', ''), '' for a card without content
Contents == {Flatten(ps) : ps \in SeqsUpTo(Pieces, MaxContent)}

\* the answers to GET cards?deck-id=... that list one card
ContentOutcomes == {Http(200, DocsBody(<<Card(c)>>)) : c \in Contents}

\* the strings the caller passes for names and ids
Inputs == {"a", "b", "c"}

\* ------------------------------------------------------------------ the client

\* no call is on record
NoCall == [op |-> "none", arg |-> "", mode |-> "", reqs |-> <<>>, stage |-> "done", ok |-> TRUE,
           err |-> NoError, ret |-> <<>>]

\* the caller is between two calls
Idle == last = NoCall

Init ==
    /\ constructed = FALSE
    /\ decks = <<>>
    /\ handle = NoHandle
    /\ listing = <<>>
    /\ last = NoCall

\* the call op(arg), with the flag or second argument mode, ended as d
RecordMode(op, arg, mode, d) ==
    /\ decks' = d.decks
    /\ handle' = d.handle
    /\ listing' = d.listing
    /\ last' = [op |-> op, arg |-> arg, mode |-> mode, reqs |-> d.reqs,
                stage |-> d.stage, ok |-> d.ok, err |-> d.err, ret |-> d.ret]

Record(op, arg, d) == RecordMode(op, arg, "", d)

\* the outcome of the reload is drawn only when the call gets as far as the reload
After(o1, outcomes) == IF MakeRequest(o1).ok THEN outcomes ELSE {Timeout}

AfterCreate(o1, outcomes) ==
    IF MakeRequest(o1).ok /\ o1.body.kind = "dict" /\ ~Falsy(MakeRequest(o1).data.id)
       /\ MakeRequest(o1).data.name # NoneVal
    THEN outcomes ELSE {Timeout}

\* MochiAPI(api_key), the server answering with one of outcomes
ConstructFrom(outcomes) ==
    /\ Idle
    /\ ~constructed
    /\ \E api_key \in ApiKeys, o \in outcomes :
        LET d == construct(api_key, o) IN
        /\ constructed' = d.ok
        /\ Record("__init__", api_key, d)

Construct == ConstructFrom(ReloadOutcomes)

\* refresh_decks, the server answering with one of outcomes
RefreshDecksFrom(outcomes) ==
    /\ Idle
    /\ constructed
    /\ \E o \in outcomes :
        Record("refresh_decks", "", refresh_decks(decks, handle, listing, o))
    /\ UNCHANGED constructed

RefreshDecks == RefreshDecksFrom(ReloadOutcomes)

GetDecks ==
    /\ Idle
    /\ constructed
    /\ \E names_only \in BOOLEAN :
        Record("get_decks", IF names_only THEN "names" ELSE "full",
               get_decks(decks, handle, listing, names_only))
    /\ UNCHANGED constructed

CountDecks ==
    /\ Idle
    /\ constructed
    /\ Record("count_decks", "", count_decks(decks, handle, listing))
    /\ UNCHANGED constructed

GetDeck ==
    /\ Idle
    /\ constructed
    /\ \E name \in Inputs : Record("get_deck", name, get_deck(decks, handle, listing, name))
    /\ UNCHANGED constructed

\* get_cards, the server answering with one of outcomes
GetCardsFrom(outcomes) ==
    /\ Idle
    /\ constructed
    /\ \E x \in Inputs, condensed \in BOOLEAN, o \in outcomes :
        /\ Resolve(decks, x).ok \/ o = Timeout
        /\ RecordMode("get_cards", x, IF condensed THEN "condensed" ELSE "raw",
                      get_cards(decks, handle, listing, x, condensed, o))
    /\ UNCHANGED constructed

GetCards == GetCardsFrom(CardOutcomes)

CreateDeck ==
    /\ Idle
    /\ constructed
    /\ \E name \in DeckNames, parent_id \in ParentIds :
        \E o1 \in CreateOutcomes(parent_id) :
            \E o2 \in AfterCreate(o1, ReloadOutcomes) :
                Record("create_deck", name,
                       create_deck(decks, handle, listing, name, parent_id, o1, o2))
    /\ UNCHANGED constructed

DeleteDeck ==
    /\ Idle
    /\ constructed
    /\ \E deck_id \in DeckNames, o1 \in DeleteOutcomes :
        \E o2 \in After(o1, ReloadOutcomes) :
            Record("delete_deck", deck_id,
                   delete_deck(decks, handle, listing, deck_id, o1, o2))
    /\ UNCHANGED constructed

UpdateDeck ==
    /\ Idle
    /\ constructed
    /\ handle.kind # "none"
    /\ \E new_name \in DeckNames, o1 \in UpdateOutcomes :
        \E o2 \in After(o1, ReloadOutcomes) :
            Record("update_deck", new_name,
                   update_deck(decks, handle, listing, new_name, o1, o2))
    /\ UNCHANGED constructed

DeleteCard ==
    /\ Idle
    /\ constructed
    /\ handle.kind # "none"
    /\ \E card_id \in CardIds, o \in DeleteOutcomes :
        Record("delete_card", card_id, delete_card(decks, handle, listing, card_id, o))
    /\ UNCHANGED constructed

CreateCard ==
    /\ Idle
    /\ constructed
    /\ \E deck_id \in CardDeckIds, content \in Fronts, o \in CardPostOutcomes :
        Record("create_card", deck_id,
               create_card(decks, handle, listing, deck_id, content, o))
    /\ UNCHANGED constructed

AddCard ==
    /\ Idle
    /\ constructed
    /\ handle.kind # "none"
    /\ \E front \in Fronts, back \in Backs, o \in CardPostOutcomes :
        Record("add_card", "", add_card(decks, handle, listing, front, back, o))
    /\ UNCHANGED constructed

UpdateCard ==
    /\ Idle
    /\ constructed
    /\ handle.kind # "none"
    /\ \E card_id \in CardIds, front \in Fronts, back \in Backs, o \in CardPostOutcomes :
        Record("update_card", card_id,
               update_card(decks, handle, listing, card_id, front, back, o))
    /\ UNCHANGED constructed

\* Deck.get_cards, the server answering with one of outcomes
DeckGetCardsFrom(outcomes) ==
    /\ Idle
    /\ constructed
    /\ handle.kind # "none"
    /\ \E condensed \in BOOLEAN, o \in outcomes :
        /\ Resolve(decks, SelfOf(decks, handle).id).ok \/ o = Timeout
        /\ RecordMode("Deck.get_cards", "", IF condensed THEN "condensed" ELSE "raw",
                      deck_get_cards(decks, handle, listing, condensed, o))
    /\ UNCHANGED constructed

DeckGetCards == DeckGetCardsFrom(CardOutcomes)

DeckDeleteDeck ==
    /\ Idle
    /\ constructed
    /\ handle.kind # "none"
    /\ \E o1 \in DeleteOutcomes :
        \E o2 \in After(o1, ReloadOutcomes) :
            Record("Deck.delete_deck", "",
                   deck_delete_deck(decks, handle, listing, o1, o2))
    /\ UNCHANGED constructed

GetChildren ==
    /\ Idle
    /\ constructed
    /\ handle.kind # "none"
    /\ \E names_only \in BOOLEAN :
        RecordMode("get_children", "", IF names_only THEN "names" ELSE "full",
                   get_children(decks, handle, listing, names_only))
    /\ UNCHANGED constructed

\* the caller takes the result of the call; the record of the call is dropped
Return ==
    /\ ~Idle
    /\ last' = NoCall
    /\ UNCHANGED <<constructed, decks, handle, listing>>

Next ==
    \/ Return
    \/ Construct
    \/ RefreshDecks
    \/ GetDecks
    \/ CountDecks
    \/ GetDeck
    \/ GetCards
    \/ CreateDeck
    \/ DeleteDeck
    \/ UpdateDeck
    \/ DeleteCard
    \/ CreateCard
    \/ AddCard
    \/ UpdateCard
    \/ DeckGetCards
    \/ DeckDeleteDeck
    \/ GetChildren

Spec == Init /\ [][Next]_vars

\* ------------------------------------------------- the lookups on a loaded cache

\* a client constructed from any listing
InitLookup ==
    /\ constructed = TRUE
    /\ \E l \in AnyListings :
        /\ decks = BuildMap(l, <<>>)
        /\ listing = l
    /\ handle = NoHandle
    /\ last = NoCall

\* the listing of the cards fails, is empty, or has one card
LookupOutcomes ==
    {Timeout, NoContent, Http(200, DocsBody(<<Card(<<"x">>)>>))}

\* get_cards with one of these answers
LookupCards ==
    GetCardsFrom(LookupOutcomes)

\* Deck.get_cards with the same answers
DeckLookupCards ==
    DeckGetCardsFrom(LookupOutcomes)

NextLookup ==
    \/ Return
    \/ GetDecks
    \/ CountDecks
    \/ GetDeck
    \/ LookupCards
    \/ DeckLookupCards

LookupSpec == InitLookup /\ [][NextLookup]_vars

\* ------------------------------------------------- the loads of the cache

\* the answers to GET decks, every listing in both shapes
LoadOutcomes ==
    Failures \cup {NoContent}
    \cup {Http(200, b) :
            b \in {DocsBody(l) : l \in ServerListings}
                  \cup {ListBody(l) : l \in ServerListings}
                  \cup {DocsNotListBody, ScalarBody, EmptyDict,
                        DocsBody(<<UnhashableEntry>>), DeckBody("a", "a", NoneVal)}}

Load == ConstructFrom(LoadOutcomes)

Reload == RefreshDecksFrom(LoadOutcomes)

NextLoad ==
    \/ Return
    \/ Load
    \/ Reload
    \/ GetDeck

LoadSpec == Init /\ [][NextLoad]_vars

\* ------------------------------------------------- the contents of the cards

\* a client constructed from a listing of one deck; the cards it lists have
\* any content
InitCards ==
    /\ constructed = TRUE
    /\ listing = <<[isdict |-> TRUE, id |-> "a", name |-> "b", parent |-> NoneVal]>>
    /\ decks = BuildMap(listing, <<>>)
    /\ handle = NoHandle
    /\ last = NoCall

ReadCards == GetCardsFrom(ContentOutcomes)

DeckReadCards == DeckGetCardsFrom(ContentOutcomes)

NextCards ==
    \/ Return
    \/ GetDeck
    \/ ReadCards
    \/ DeckReadCards

CardSpec == InitCards /\ [][NextCards]_vars

\* ------------------------------------------------- the children of a held Deck

\* a client constructed from any listing, whose caller holds no Deck or holds
\* a Deck it got before the cache was last reloaded
InitChildren ==
    /\ constructed = TRUE
    /\ \E l \in AnyListings :
        /\ decks = BuildMap(l, <<>>)
        /\ listing = l
    /\ handle \in {NoHandle, Own(Deck("a", "b", NoneVal))}
    /\ last = NoCall

NextChildren ==
    \/ Return
    \/ GetDeck
    \/ GetChildren

ChildrenSpec == InitChildren /\ [][NextChildren]_vars

\* ------------------------------------------------------------------ properties

\* the elements of a sequence
Range(seq) == {seq[i] : i \in 1..Len(seq)}

\* how many times x occurs in seq
Occurrences(seq, x) == Cardinality({i \in 1..Len(seq) : seq[i] = x})

\* a listing entry with a non-empty id and a name
HasIdAndName(e) == e.isdict /\ e.id # NoneVal /\ e.id # "" /\ e.name # NoneVal

\* the entries i and j of the loaded listing have the same name and distinct ids
SameNamePair(i, j) ==
    /\ HasIdAndName(listing[i]) /\ HasIdAndName(listing[j])
    /\ listing[i].name = listing[j].name
    /\ listing[i].id # listing[j].id

\* the loaded listing has an entry with a non-empty id and the name x
Listed(x) == \E i \in 1..Len(listing) : HasIdAndName(listing[i]) /\ listing[i].name = x

\* C1: every Deck of api.decks is stored under the key equal to its own current
\* name (the statement of the claim; Deck.update_deck breaks it when its reload
\* fails after the rename)
C1_StoredUnderOwnName ==
    \A k \in 1..Len(decks) : \A j \in 1..Len(decks[k].items) :
        decks[k].items[j].name = decks[k].key

\* C2: when the loaded listing has two entries of one name and distinct ids,
\* get_cards(name) and get_deck(name) raise the ambiguity ValueError that lists
\* both ids, and get_cards issues no request, also when the name is a deck's id
C2_AmbiguousNameFails ==
    \A i, j \in 1..Len(listing) :
        (/\ SameNamePair(i, j)
         /\ last.op \in {"get_cards", "get_deck"}
         /\ last.arg = listing[i].name)
        => /\ ~last.ok
           /\ last.err.type = "ValueError"
           /\ last.err.msg = IF last.op = "get_cards"
                             THEN <<"matches multiple decks by name">>
                             ELSE <<"Multiple decks found with name">>
           /\ {listing[i].id, listing[j].id} \subseteq Range(last.err.ids)
           /\ last.reqs = <<>>

\* C2 witness: get_cards("a") was called on a cache holding two decks named "a",
\* one of which has the id "a"
C2_Witness ==
    /\ last.op = "get_cards" /\ last.arg = "a"
    /\ \E i, j \in 1..Len(listing) : SameNamePair(i, j) /\ listing[i].name = "a"
    /\ \E d \in Range(AllDeckObjects(decks)) : d.id = "a"

\* C3 as stated: with two listed entries of one name and distinct ids,
\* get_cards(id) for either id requests the cards of exactly that id
C3_IdResolves ==
    \A i, j \in 1..Len(listing) :
        (/\ SameNamePair(i, j)
         /\ last.op = "get_cards"
         /\ last.arg = listing[i].id)
        => /\ Len(last.reqs) = 1
           /\ last.reqs[1].endpoint = "cards?deck-id="
           /\ last.reqs[1].id = last.arg

\* C3 amended: the same, provided the id is not also a name (key) of the cache
C3_IdResolvesUnlessName ==
    \A i, j \in 1..Len(listing) :
        (/\ SameNamePair(i, j)
         /\ last.op = "get_cards"
         /\ last.arg = listing[i].id
         /\ last.arg \notin Range(GetDecksNames(decks)))
        => /\ Len(last.reqs) = 1
           /\ last.reqs[1].endpoint = "cards?deck-id="
           /\ last.reqs[1].id = last.arg

\* C3 witness: get_cards("b") with decks "a" and "b" both named "a"
C3_Witness ==
    /\ last.op = "get_cards" /\ last.arg = "b"
    /\ \E i, j \in 1..Len(listing) :
        SameNamePair(i, j) /\ listing[i].id = "b" /\ listing[i].name = "a"
    /\ Len(last.reqs) = 1

\* C4: a DELETE answered with 404 makes delete_deck and Deck.delete_card raise
\* the MochiAPIError with the dedicated 404 message and status_code 404
C4_Delete404 ==
    (/\ last.op \in {"delete_deck", "delete_card"}
     /\ Len(last.reqs) = 1
     /\ last.reqs[1].method = "DELETE"
     /\ last.reqs[1].status = 404)
    => /\ ~last.ok
       /\ last.err.type = "MochiAPIError"
       /\ last.err.status_code = 404
       /\ last.err.msg[1] = "Failed to delete: none found with ID (Error 404)"

\* C5: once the POST of create_deck was answered with an id and a name (the call
\* went on to its reload), create_deck returns a Deck and does not raise
C5_CreateNeverFailsAfterPost ==
    (last.op = "create_deck" /\ Len(last.reqs) = 2) => last.ok /\ Len(last.ret) = 1

\* C6 as stated: after create_deck(name) returned, get_decks(names_only=False)
\* has an entry with that name and a non-empty id
C6_CreatedIsListed ==
    (last.op = "create_deck" /\ last.ok)
    => \E p \in Range(GetDecksFull(decks)) :
           p.name = last.arg /\ p.id # NoneVal /\ p.id # ""

\* C6 amended: after create_deck(name) returned, get_decks(names_only=False) has
\* an entry with that name and a non-empty id exactly when the listing of the
\* reload has one
C6_CreatedIsListedIfReloaded ==
    (last.op = "create_deck" /\ last.ok)
    => ((\E p \in Range(GetDecksFull(decks)) :
            p.name = last.arg /\ p.id # NoneVal /\ p.id # "")
        <=> Listed(last.arg))

\* C6 witness: create_deck("a") returned and the reloaded listing has a deck "a"
C6_Witness ==
    /\ last.op = "create_deck" /\ last.ok /\ last.arg = "a"
    /\ Listed("a")
    /\ Len(last.reqs) = 2

\* the first request of the call on record failed: no response came, or one with
\* an HTTP error status
FirstRequestFailed(call) ==
    /\ Len(call.reqs) >= 1
    /\ call.reqs[1].t # "http" \/ call.reqs[1].status >= 400

\* C7: when the mutation request of create_deck, delete_deck or update_deck
\* fails, the call raises MochiAPIError, issues no reload, and leaves api.decks
\* and the held Deck (its name included) as they were
C7_FailedMutationKeepsCache ==
    [][(/\ last'.op \in {"create_deck", "delete_deck", "update_deck"}
        /\ FirstRequestFailed(last'))
       => /\ ~last'.ok
          /\ last'.err.type = "MochiAPIError"
          /\ Len(last'.reqs) = 1
          /\ decks' = decks
          /\ handle' = handle
          /\ SelfOf(decks', handle').name = SelfOf(decks, handle).name]_vars

\* C7 witness: update_deck on a Deck of the cache, whose POST timed out
C7_Witness ==
    /\ last.op = "update_deck"
    /\ FirstRequestFailed(last) /\ last.reqs[1].t = "timeout"
    /\ handle.kind = "cached"
    /\ ~last.ok

\* the slots of deck_map are the name groups of the entries of docs that have an
\* id and a name: one slot per name, holding the ids (and parents) of the
\* entries of that name in the order of docs, as a list when there are several
GroupsOf(deck_map, docs) ==
    /\ \A k, m \in 1..Len(deck_map) : deck_map[k].key = deck_map[m].key => k = m
    /\ {deck_map[k].key : k \in 1..Len(deck_map)}
       = {docs[i].name : i \in {n \in 1..Len(docs) : HasIdAndName(docs[n])}}
    /\ \A k \in 1..Len(deck_map) :
        LET group == SelectSeq(docs, LAMBDA e : HasIdAndName(e) /\ e.name = deck_map[k].key)
        IN /\ Len(deck_map[k].items) = Len(group)
           /\ \A j \in 1..Len(group) :
                /\ deck_map[k].items[j].id = group[j].id
                /\ deck_map[k].items[j].parent_id = group[j].parent
           /\ deck_map[k].isList <=> Len(group) >= 2

\* C8: a refresh_decks that fails leaves api.decks the previous snapshot, a
\* refresh_decks that succeeds makes it the grouping of the new listing, every
\* Deck under its name, and api.decks is at every step the grouping of the one
\* listing loaded last
C8_RefreshIsAtomic ==
    [][/\ (last'.op = "refresh_decks" /\ ~last'.ok) => decks' = decks /\ listing' = listing
       /\ (last'.op = "refresh_decks" /\ last'.ok)
          => \A k \in 1..Len(decks') : \A j \in 1..Len(decks'[k].items) :
                decks'[k].items[j].name = decks'[k].key
       /\ GroupsOf(decks', listing')]_vars

\* C8 witness: a refresh_decks failed on a client whose cache holds decks
C8_Witness ==
    /\ last.op = "refresh_decks" /\ ~last.ok
    /\ Len(decks) >= 1

\* C9 as stated: after update_deck(new_name) returned, get_decks() has new_name
C9_RenameIsListed ==
    (last.op = "update_deck" /\ last.ok) => last.arg \in Range(GetDecksNames(decks))

\* C9 amended: after update_deck(new_name) returned, the held Deck is named
\* new_name, and get_decks() has new_name exactly when the listing of the reload
\* has an entry of that name with an id
C9_RenameIsListedIfReloaded ==
    (last.op = "update_deck" /\ last.ok)
    => /\ SelfOf(decks, handle).name = last.arg
       /\ last.arg \in Range(GetDecksNames(decks)) <=> Listed(last.arg)

\* C9 witness: update_deck("b") returned and get_decks() has "b"
C9_Witness ==
    /\ last.op = "update_deck" /\ last.ok /\ last.arg = "b"
    /\ "b" \in Range(GetDecksNames(decks))

\* C10: get_decks(names_only=False) has one {name, id} pair for each entry of
\* the loaded listing that has a non-empty id and a name and none for any other
\* entry, and count_decks() is the number of those entries
C10_ListAllAndCount ==
    /\ (last.op = "get_decks" /\ last.arg = "full")
       => \A n \in NameVals, i \in IdVals :
            Occurrences(last.ret, [name |-> n, id |-> i])
            = Cardinality({m \in 1..Len(listing) :
                             /\ HasIdAndName(listing[m])
                             /\ listing[m].name = n
                             /\ listing[m].id = i})
    /\ last.op = "count_decks"
       => last.ret = <<Cardinality({m \in 1..Len(listing) : HasIdAndName(listing[m])})>>

\* C10 witness: get_decks(names_only=False) on a client loaded from a listing
\* with an entry that lacks an id or a name and with another that has both
C10_Witness ==
    /\ last.op = "get_decks" /\ last.arg = "full"
    /\ \E m \in 1..Len(listing) : ~HasIdAndName(listing[m])
    /\ Len(last.ret) = 1

AmbiguousKey(x) == \E k \in 1..Len(decks) : decks[k].key = x /\ decks[k].isList

\* x is a key of the cache or the id of a cached deck
KnownNameOrId(x) ==
    \/ \E k \in 1..Len(decks) : decks[k].key = x
    \/ \E d \in Range(AllDeckObjects(decks)) : d.id = x

Places == UNION {{<<k, j>> : j \in 1..Len(decks[k].items)} : k \in 1..Len(decks)}

\* the places of the cached decks whose parent_id is the id of the held Deck
ChildPlaces ==
    {p \in Places : decks[p[1]].items[p[2]].parent_id = SelfOf(decks, handle).id}

\* C12: get_children returns the cached decks whose parent_id is the id of
\* the held Deck, each as many times as the cache holds it (once per place),
\* or their names with names_only, and nothing else; the empty list when no
\* cached deck has that parent
C12_ChildrenAreTheDecksOfThatParent ==
    last.op = "get_children" =>
        /\ last.ok
        /\ Len(last.ret) = Cardinality(ChildPlaces)
        /\ last.mode = "full" =>
               \A d \in Range(last.ret) \cup Range(AllDeckObjects(decks)) :
                   Occurrences(last.ret, d)
                   = Cardinality({p \in ChildPlaces : decks[p[1]].items[p[2]] = d})
        /\ last.mode = "names" =>
               \A n \in Range(last.ret) \cup Range(GetDecksNames(decks)) :
                   Occurrences(last.ret, n)
                   = Cardinality({p \in ChildPlaces : decks[p[1]].items[p[2]].name = n})

\* C12 witness: get_children(names_only=False) returned two decks of one name,
\* the members of a same-name group
C12_Witness ==
    /\ last.op = "get_children" /\ last.mode = "full"
    /\ Len(last.ret) = 2
    /\ last.ret[1].name = last.ret[2].name
    /\ last.ret[1].id # last.ret[2].id

\* C12 second witness: get_children of a Deck without children in a cache
\* that holds decks is the empty list
C12_WitnessEmpty ==
    /\ last.op = "get_children"
    /\ last.ret = <<>>
    /\ decks # <<>>
    /\ handle.kind = "cached"

\* every character of str is white space
AllSpace(str) == \A i \in 1..Len(str) : IsSpace(str[i])

\* the separator line stands in str at position i
SeparatorAt(str, i) ==
    /\ i + Len(Separator) - 1 <= Len(str)
    /\ \A m \in 1..Len(Separator) : str[i + m - 1] = Separator[m]

HasSeparator(str) == \E i \in 1..Len(str) : SeparatorAt(str, i)

\* c is joined with white space put in at four places: before it, after it,
\* and after its first at1 and its first at2 characters
ReproducesUpToTrimming(c, joined, at1, at2) ==
    \E a \in 0..Len(c) :
        /\ AllSpace(SubSeq(c, 1, a))
        /\ \E b \in 0..(Len(c) - a - at1) :
            /\ AllSpace(SubSeq(c, a + at1 + 1, a + at1 + b))
            /\ \E d \in 0..(Len(c) - a - b - at2) :
                LET e == Len(c) - Len(joined) - a - b - d
                IN /\ e >= 0
                   /\ AllSpace(SubSeq(c, a + b + at2 + 1, a + b + at2 + d))
                   /\ AllSpace(SubSeq(c, Len(c) - e + 1, Len(c)))
                   /\ c = SubSeq(c, 1, a) \o SubSeq(joined, 1, at1)
                          \o SubSeq(c, a + at1 + 1, a + at1 + b)
                          \o SubSeq(joined, at1 + 1, at2)
                          \o SubSeq(c, a + b + at2 + 1, a + b + at2 + d)
                          \o SubSeq(joined, at2 + 1, Len(joined))
                          \o SubSeq(c, Len(c) - e + 1, Len(c))

\* a condensed listing of the cards the server sent has been returned
CondensedReturned ==
    /\ last.op \in {"get_cards", "Deck.get_cards"}
    /\ last.mode = "condensed"
    /\ last.ok

\* the content of card i of the listing the server sent
ContentSent(i) == last.reqs[1].got.body.docs[i].content

\* front and back of card i, rejoined as add_card joins them, give the content
\* of the card up to the white space trimmed around front and around back
RoundTrip(i) ==
    ReproducesUpToTrimming(ContentSent(i),
                           JoinContent(last.ret[i].front, last.ret[i].back),
                           Len(last.ret[i].front),
                           Len(last.ret[i].front) + Len(Separator))

\* C13 as stated: for every content, with or without separator
C13_RoundTrip ==
    CondensedReturned => \A i \in 1..Len(last.ret) : RoundTrip(i)

\* C13 amended: for every content that has a separator line; a content
\* without one comes back as its trimmed self followed by a separator line
C13_RoundTripWithSeparator ==
    CondensedReturned =>
        \A i \in 1..Len(last.ret) :
            IF HasSeparator(ContentSent(i)) THEN RoundTrip(i)
            ELSE /\ JoinContent(last.ret[i].front, last.ret[i].back)
                    = last.ret[i].front \o Separator
                 /\ \E a, e \in 0..Len(ContentSent(i)) :
                        /\ AllSpace(SubSeq(ContentSent(i), 1, a))
                        /\ AllSpace(SubSeq(ContentSent(i), Len(ContentSent(i)) - e + 1,
                                           Len(ContentSent(i))))
                        /\ ContentSent(i) = SubSeq(ContentSent(i), 1, a)
                                            \o last.ret[i].front
                                            \o SubSeq(ContentSent(i),
                                                      Len(ContentSent(i)) - e + 1,
                                                      Len(ContentSent(i)))

\* C13 witness: a content with two separator lines and white space around
\* the first has been condensed
C13_Witness ==
    /\ CondensedReturned
    /\ Len(last.ret) = 1
    /\ ContentSent(1) = <<"x", " ">> \o Separator \o <<"\n">> \o Separator
    /\ last.ret[1].front = <<"x">>
    /\ last.ret[1].back = <<"-", "-", "-">>

\* t is str without the white space at its two ends
IsTrimOf(t, str) ==
    /\ t = <<>> \/ (~IsSpace(t[1]) /\ ~IsSpace(t[Len(t)]))
    /\ \E a, e \in 0..Len(str) :
        /\ a + e <= Len(str)
        /\ AllSpace(SubSeq(str, 1, a))
        /\ AllSpace(SubSeq(str, Len(str) - e + 1, Len(str)))
        /\ t = SubSeq(str, a + 1, Len(str) - e)

\* C14: each card of a condensed listing is the trimmed content before the
\* first separator line and the trimmed content after it, or the trimmed
\* content and the empty string when the content has no separator line; what
\* follows the first separator line, later separator lines included, is in back
C14_FrontAndBack ==
    CondensedReturned =>
        /\ Len(last.ret) = Len(last.reqs[1].got.body.docs)
        /\ \A i \in 1..Len(last.ret) :
            LET c == ContentSent(i) IN
            IF ~HasSeparator(c)
            THEN IsTrimOf(last.ret[i].front, c) /\ last.ret[i].back = <<>>
            ELSE \E n \in 1..Len(c) :
                    /\ SeparatorAt(c, n)
                    /\ \A m \in 1..(n - 1) : ~SeparatorAt(c, m)
                    /\ IsTrimOf(last.ret[i].front, SubSeq(c, 1, n - 1))
                    /\ IsTrimOf(last.ret[i].back, SubSeq(c, n + Len(Separator), Len(c)))

\* C14 witness: Deck.get_cards condensed a content with two separator lines,
\* and the second one is in back
C14_Witness ==
    /\ CondensedReturned
    /\ last.op = "Deck.get_cards"
    /\ Len(last.ret) = 1
    /\ ContentSent(1) = <<"x">> \o Separator \o <<"x">> \o Separator \o <<"x">>
    /\ last.ret[1].front = <<"x">>
    /\ last.ret[1].back = <<"x">> \o Separator \o <<"x">>

\* the answer to the card-listing request of the call was a success without
\* cards: no content, the empty object, or an object with an empty docs list
NoCardsSent ==
    /\ Len(last.reqs) = 1
    /\ last.reqs[1].endpoint = "cards?deck-id="
    /\ last.reqs[1].got.t = "http"
    /\ last.reqs[1].got.status < 400
    /\ \/ last.reqs[1].got.status = 204
       \/ ~last.reqs[1].got.content
       \/ /\ last.reqs[1].got.json
          /\ \/ last.reqs[1].got.body = EmptyDict
             \/ last.reqs[1].got.body = NoDocs

\* C15: get_cards and Deck.get_cards return the empty list, and raise nothing,
\* when the listing of the resolved deck comes back without cards, whatever
\* condensed is
C15_NoCardsIsSuccess ==
    (last.op \in {"get_cards", "Deck.get_cards"} /\ NoCardsSent)
        => last.ok /\ last.ret = <<>> /\ last.err = NoError

\* C15 witness: get_cards(condensed=False) got the empty object with status 200
C15_Witness ==
    /\ last.op = "get_cards"
    /\ last.mode = "raw"
    /\ NoCardsSent
    /\ last.reqs[1].got.status = 200
    /\ last.reqs[1].got.body = EmptyDict
    /\ last.ok

\* C16: MochiAPI(api_key) with None, "" or a value that is no string raises
\* the ValueError of the api_key test without a request, and no client comes
\* to be; only a non-empty string gets as far as the request for the decks
C16_BadKeyFailsBeforeAnyRequest ==
    last.op = "__init__" =>
        /\ last.arg \in {NoneVal, "", "<int 0>", "<int 5>"} =>
               /\ ~last.ok
               /\ last.err.type = "ValueError"
               /\ last.err.msg = <<"Mochi API key must be provided as a non-empty string.">>
               /\ last.reqs = <<>>
               /\ ~constructed
        /\ last.arg \notin {NoneVal, "", "<int 0>", "<int 5>"} =>
               /\ Len(last.reqs) = 1
               /\ last.reqs[1].method = "GET" /\ last.reqs[1].endpoint = "decks"

\* C16 witness: MochiAPI(5) raised
C16_Witness ==
    /\ last.op = "__init__"
    /\ last.arg = "<int 5>"
    /\ ~last.ok
    /\ ~constructed

\* C17: when the argument of get_cards is a key of the cache for one deck, the
\* one request of the call lists the cards of that deck's id, whatever ids
\* the other cached decks have
C17_NameBeforeId ==
    last.op = "get_cards" =>
        \A k \in 1..Len(decks) :
            (decks[k].key = last.arg /\ Len(decks[k].items) = 1)
            => /\ Len(last.reqs) = 1
               /\ last.reqs[1].method = "GET"
               /\ last.reqs[1].endpoint = "cards?deck-id="
               /\ last.reqs[1].id = decks[k].items[1].id

\* C17 witness: get_cards("a") listed the cards of the one deck named "a",
\* whose id is not "a", while another cached deck has the id "a"
C17_Witness ==
    /\ last.op = "get_cards" /\ last.arg = "a"
    /\ Len(last.reqs) = 1
    /\ last.reqs[1].id # "a"
    /\ \E k \in 1..Len(decks) : decks[k].key = "a" /\ Len(decks[k].items) = 1
    /\ \E d \in Range(AllDeckObjects(decks)) : d.id = "a"

\* the request went through: a response came, and its status is below 400
Answered(req) == req.t = "http" /\ req.status < 400

\* C18: a construction, refresh_decks, create_deck, delete_deck or update_deck
\* that returns has ended with a GET decks that was answered, and api.decks is
\* the grouping by name of the entries with id and name of the listing that
\* request returned, each Deck under its name and nothing else; the mutations
\* have issued it after their own request was answered
C18_CacheIsTheLastListing ==
    (/\ last.op \in {"__init__", "refresh_decks", "create_deck", "delete_deck",
                     "Deck.delete_deck", "update_deck"}
     /\ last.ok)
    => LET n == Len(last.reqs) IN
       /\ n = IF last.op \in {"__init__", "refresh_decks"} THEN 1 ELSE 2
       /\ \A i \in 1..n : Answered(last.reqs[i])
       /\ last.reqs[n].method = "GET" /\ last.reqs[n].endpoint = "decks"
       /\ n = 2 => /\ last.reqs[1].method \in {"POST", "DELETE"}
                   /\ last.reqs[1].endpoint \in {"decks", "decks/"}
       /\ GroupsOf(decks, last.reqs[n].got.body.docs)
       /\ \A k \in 1..Len(decks) : \A j \in 1..Len(decks[k].items) :
              decks[k].items[j].name = decks[k].key

\* C18 witness: a delete_deck returned, and the Deck the caller held from the
\* earlier snapshot is not in the cache any more
C18_Witness ==
    /\ last.op = "delete_deck" /\ last.ok
    /\ handle.kind = "own"
    /\ \A d \in Range(AllDeckObjects(decks)) : d.id # handle.obj.id
    /\ decks # <<>>

\* C19: an update_deck that returns has issued the POST for the held Deck's id
\* and then GET decks, both answered, and the held Deck has the new name; one
\* that stopped at its POST has issued no GET decks and left the name of the
\* held Deck as it was; one that stopped at its GET decks had its POST
\* answered and has already given the held Deck the new name
C19_PostThenNameThenReload ==
    [][last'.op = "update_deck" =>
        /\ Len(last'.reqs) \in {1, 2}
        /\ last'.reqs[1].method = "POST" /\ last'.reqs[1].endpoint = "decks/"
        /\ last'.reqs[1].id = SelfOf(decks, handle).id
        /\ Len(last'.reqs) = 2 =>
               /\ Answered(last'.reqs[1])
               /\ last'.reqs[2].method = "GET" /\ last'.reqs[2].endpoint = "decks"
               /\ SelfOf(decks', handle').name = last'.arg
        /\ ~Answered(last'.reqs[1]) =>
               /\ Len(last'.reqs) = 1
               /\ SelfOf(decks', handle').name = SelfOf(decks, handle).name
        /\ last'.ok =>
               /\ Len(last'.reqs) = 2
               /\ Answered(last'.reqs[2])
        /\ SelfOf(decks', handle').id = SelfOf(decks, handle).id]_vars

\* C19 witness: an update_deck returned after its two requests, and the Deck
\* the caller holds, now outside the cache, has the new name
C19_Witness ==
    /\ last.op = "update_deck" /\ last.ok
    /\ Len(last.reqs) = 2
    /\ Answered(last.reqs[1]) /\ Answered(last.reqs[2])
    /\ handle.kind = "own"
    /\ handle.obj.name = last.arg

\* C20 as stated: a call of an operation other than create_deck issues at most
\* one request, and create_deck issues its second request after the first
\* was answered
C20_AtMostOneRequest ==
    /\ last.op # "create_deck" => Len(last.reqs) <= 1
    /\ (last.op = "create_deck" /\ Len(last.reqs) >= 2) => Answered(last.reqs[1])

\* C20 amended: a call issues at most two requests, two only in create_deck,
\* delete_deck, Deck.delete_deck and update_deck, where the second is the GET
\* decks of the reload, issued after the first was answered; the lookups in
\* the cache issue none
C20_RequestsInSequence ==
    /\ Len(last.reqs) <= 2
    /\ Len(last.reqs) = 2 =>
           /\ last.op \in {"create_deck", "delete_deck", "Deck.delete_deck", "update_deck"}
           /\ Answered(last.reqs[1])
           /\ last.reqs[1].method \in {"POST", "DELETE"}
           /\ last.reqs[2].method = "GET" /\ last.reqs[2].endpoint = "decks"
    /\ (last.op \in {"create_deck", "delete_deck", "Deck.delete_deck", "update_deck"}
        /\ last.ok) => Len(last.reqs) = 2
    /\ last.op \in {"get_deck", "get_decks", "count_decks", "get_children"}
           => last.reqs = <<>>

\* C20 witness: Deck.delete_deck issued its DELETE and then a GET decks, which
\* failed
C20_Witness ==
    /\ last.op = "Deck.delete_deck"
    /\ Len(last.reqs) = 2
    /\ last.reqs[1].method = "DELETE" /\ Answered(last.reqs[1])
    /\ ~Answered(last.reqs[2])
    /\ last.stage = "reload"

\* C21: get_cards of a string that is no key of the cache and no id of a
\* cached deck raises the ValueError "No deck found with name or ID", which
\* reports the number of keys and the number of decks of the cache; the call
\* issues no request and leaves the cache and the held Deck as they were
C21_UnknownIsNotFound ==
    [][(last'.op = "get_cards" /\ ~KnownNameOrId(last'.arg))
       => /\ ~last'.ok
          /\ last'.err.type = "ValueError"
          /\ last'.err.msg = <<"No deck found with name or ID">>
          /\ last'.err.names = Cardinality({decks[k].key : k \in 1..Len(decks)})
          /\ last'.err.nids = Cardinality(Places)
          /\ last'.reqs = <<>>
          /\ decks' = decks
          /\ handle' = handle]_vars

\* C21 witness: get_cards("c") failed on a cache of two decks under one name
C21_Witness ==
    /\ last.op = "get_cards" /\ last.arg = "c"
    /\ ~last.ok
    /\ last.err.names = 1 /\ last.err.nids = 2
    /\ Len(decks) = 1 /\ Len(decks[1].items) = 2

\* the operations on cards
CardOps ==
    {"create_card", "add_card", "update_card", "delete_card", "get_cards", "Deck.get_cards"}

\* C22: a call of create_card, add_card, update_card, delete_card, get_cards
\* or Deck.get_cards, returning or raising, leaves api.decks and the held
\* Deck as they were and issues no GET decks; it issues at most one request,
\* to a cards endpoint; and a get_cards whose argument is a key for one deck,
\* or no key but the id of a cached deck, issues its card-listing request
C22_CardOperationsLeaveTheCache ==
    [][last'.op \in CardOps =>
        /\ decks' = decks
        /\ handle' = handle
        /\ listing' = listing
        /\ Len(last'.reqs) <= 1
        /\ \A i \in 1..Len(last'.reqs) :
               last'.reqs[i].endpoint \in {"cards", "cards/", "cards?deck-id="}
        /\ (/\ last'.op = "get_cards"
            /\ ~AmbiguousKey(last'.arg)
            /\ KnownNameOrId(last'.arg))
           => /\ Len(last'.reqs) = 1
              /\ last'.reqs[1].method = "GET"
              /\ last'.reqs[1].endpoint = "cards?deck-id="]_vars

\* C22 witness: add_card returned on a client whose cache holds decks, having
\* posted the front and the back joined by the separator line
C22_Witness ==
    /\ last.op = "add_card" /\ last.ok
    /\ decks # <<>>
    /\ Len(last.reqs) = 1
    /\ last.reqs[1].sent = <<"x">> \o Separator \o <<"y">>

\* what response.json() of an answered request gave, {} for an answer
\* without content
Received(req) ==
    IF req.got.status = 204 \/ ~req.got.content THEN EmptyDict ELSE req.got.body

\* the one request of the call was answered with JSON
AnsweredWithJson(call) ==
    /\ Len(call.reqs) = 1
    /\ Answered(call.reqs[1])
    /\ call.reqs[1].got.status = 204 \/ ~call.reqs[1].got.content \/ call.reqs[1].got.json

\* an object with a list under docs
IsDocsObject(b) == b.kind = "dict" /\ b.hasdocs /\ b.docslist

\* C23: a construction or refresh_decks whose GET decks is answered with JSON
\* that is neither an object with a list under docs nor a list raises
\* MochiAPIError and leaves everything as it was: no client after the
\* construction, the previous cache after the refresh; answered with a list,
\* it returns and the cache is the grouping of that list, each Deck under its
\* name, as for an object with that list under docs
C23_UnrecognizedListingFails ==
    [][(last'.op \in {"__init__", "refresh_decks"} /\ AnsweredWithJson(last'))
       => LET b == Received(last'.reqs[1]) IN
          /\ (~IsDocsObject(b) /\ b.kind # "list")
             => /\ ~last'.ok
                /\ last'.err.type = "MochiAPIError"
                /\ decks' = decks /\ listing' = listing /\ handle' = handle
                /\ constructed' = constructed
          /\ ((IsDocsObject(b) \/ b.kind = "list")
              /\ \A e \in Range(b.docs) : e.name # UnhashableName)
             => /\ last'.ok
                /\ constructed'
                /\ GroupsOf(decks', b.docs)
                /\ \A k \in 1..Len(decks') : \A j \in 1..Len(decks'[k].items) :
                       decks'[k].items[j].name = decks'[k].key]_vars

\* C23 witness: a refresh_decks answered with a bare list of two decks of one
\* name returned, and the cache has them as a list under that name
C23_Witness ==
    /\ last.op = "refresh_decks" /\ last.ok
    /\ Received(last.reqs[1]).kind = "list"
    /\ Len(Received(last.reqs[1]).docs) = 2
    /\ Len(decks) = 1 /\ decks[1].isList /\ Len(decks[1].items) = 2

\* C23 second witness: a refresh_decks answered with an object without docs
\* raised on a client whose cache holds decks
C23_WitnessRefused ==
    /\ last.op = "refresh_decks" /\ ~last.ok
    /\ AnsweredWithJson(last)
    /\ Received(last.reqs[1]).kind = "dict"
    /\ ~Received(last.reqs[1]).hasdocs
    /\ Received(last.reqs[1]).id = "a"
    /\ Received(last.reqs[1]).name = "a"
    /\ decks # <<>>

\* the call got its own request answered and then failed in the reload
ReloadFailed(call) ==
    /\ Len(call.reqs) = 2
    /\ Answered(call.reqs[1])
    /\ ~call.ok

\* C24: when the DELETE of delete_deck or the POST of update_deck is answered
\* and the reload that follows fails, the call raises MochiAPIError, issues
\* nothing after the failed GET decks, and api.decks is what it was before
\* the call (the statement of the claim; update_deck has by then renamed the
\* Deck object, which the cache holds under its old name)
C24_FailedReloadKeepsSnapshot ==
    [][(/\ last'.op \in {"delete_deck", "Deck.delete_deck", "update_deck"}
        /\ ReloadFailed(last'))
       => /\ last'.err.type = "MochiAPIError"
          /\ last'.reqs[2].method = "GET" /\ last'.reqs[2].endpoint = "decks"
          /\ decks' = decks]_vars

\* C24 for the deletions alone
C24_FailedReloadAfterDelete ==
    [][(/\ last'.op \in {"delete_deck", "Deck.delete_deck"}
        /\ ReloadFailed(last'))
       => /\ last'.err.type = "MochiAPIError"
          /\ last'.reqs[2].method = "GET" /\ last'.reqs[2].endpoint = "decks"
          /\ decks' = decks /\ handle' = handle]_vars

\* the listing of the reload of the call has the record of its creation
\* response: an entry with the id and the name the POST was answered with
CreatedIsInReload(call) ==
    \E e \in Range(Received(call.reqs[2]).docs) :
        /\ HasIdAndName(e)
        /\ e.id = Received(call.reqs[1]).id
        /\ e.name = Received(call.reqs[1]).name

\* C25: a create_deck that returns, and whose reload lists the created record,
\* returns a Deck with the id of the creation response: the Deck of the cache
\* when the name is the name of one deck, a Deck made from the response when
\* several decks of the reloaded cache have the name
C25_CreatedDeckHasTheCreatedId ==
    (last.op = "create_deck" /\ last.ok /\ CreatedIsInReload(last))
    => /\ Len(last.ret) = 1
       /\ last.ret[1].id = Received(last.reqs[1]).id
       /\ last.ret[1].name = Received(last.reqs[1]).name
       /\ SelfOf(decks, handle) = last.ret[1]
       /\ handle.kind = "cached"
          <=> Cardinality({p \in Places :
                            decks[p[1]].items[p[2]].name = Received(last.reqs[1]).name}) = 1

\* C25 witness: create_deck returned the Deck made from the response, the
\* reloaded cache holding the created deck and another one of its name
C25_Witness ==
    /\ last.op = "create_deck" /\ last.ok
    /\ CreatedIsInReload(last)
    /\ handle.kind = "own"
    /\ \E k \in 1..Len(decks) :
          /\ decks[k].key = last.ret[1].name
          /\ decks[k].isList
          /\ decks[k].items[1].id # last.ret[1].id

\* C25 second witness: create_deck returned the Deck of the cache
C25_WitnessUnique ==
    /\ last.op = "create_deck" /\ last.ok
    /\ CreatedIsInReload(last)
    /\ handle.kind = "cached"
    /\ Len(decks) = 2

\* C26: a Deck.get_cards that issues a request lists the cards of the id of
\* the Deck it is called on, and one called on a Deck whose id is no key and
\* no id of the cache raises MochiAPIError without a request (the statement
\* of the claim; get_cards looks the id up as a name first)
C26_OwnCards ==
    last.op = "Deck.get_cards" =>
        /\ \A i \in 1..Len(last.reqs) :
               /\ last.reqs[i].endpoint = "cards?deck-id="
               /\ last.reqs[i].id = SelfOf(decks, handle).id
        /\ ~KnownNameOrId(SelfOf(decks, handle).id)
           => /\ ~last.ok
              /\ last.err.type = "MochiAPIError"
              /\ last.reqs = <<>>

\* C26 without the case in which the id of the Deck is a key of the cache
C26_OwnCardsUnlessIdIsAName ==
    (/\ last.op = "Deck.get_cards"
     /\ \A k \in 1..Len(decks) : decks[k].key # SelfOf(decks, handle).id)
    => /\ \A i \in 1..Len(last.reqs) :
              /\ last.reqs[i].endpoint = "cards?deck-id="
              /\ last.reqs[i].id = SelfOf(decks, handle).id
       /\ ~KnownNameOrId(SelfOf(decks, handle).id)
          => /\ ~last.ok
             /\ last.err.type = "MochiAPIError"
             /\ last.reqs = <<>>
       /\ KnownNameOrId(SelfOf(decks, handle).id) => Len(last.reqs) = 1

\* C27: every value of api.decks is a Deck, or a list of two or more Decks,
\* and holds the decks of the entries of that name of the listing loaded
\* last, in the order of the listing; no two keys are equal; and get_decks()
\* returns each key of the cache once and nothing else
C27_SingleDeckOrListOfSeveral ==
    /\ \A k \in 1..Len(decks) :
        LET group == SelectSeq(listing,
                               LAMBDA e : HasIdAndName(e) /\ e.name = decks[k].key)
        IN /\ decks[k].isList => Len(decks[k].items) >= 2
           /\ ~decks[k].isList => Len(decks[k].items) = 1
           /\ IdsOf(decks[k].items) = [j \in 1..Len(group) |-> group[j].id]
    /\ \A k, m \in 1..Len(decks) : decks[k].key = decks[m].key => k = m
    /\ (last.op = "get_decks" /\ last.arg = "names")
       => /\ Range(last.ret) = {decks[k].key : k \in 1..Len(decks)}
          /\ \A n \in Range(last.ret) : Occurrences(last.ret, n) = 1

\* C27 witness: get_decks() returned the one name of the two decks of the cache
C27_Witness ==
    /\ last.op = "get_decks" /\ last.arg = "names"
    /\ last.ret = <<"a">>
    /\ Len(decks) = 1 /\ decks[1].isList /\ Len(decks[1].items) = 2
    /\ decks[1].items[1].id # decks[1].items[2].id
====
